---- MODULE Spec2Model ----
(***************************************************************************)
(* A model of the two render components of leptos_chart:                   *)
(*   LineChart      (src/leptos_chart/src/linechart/components.rs)         *)
(*   BarChartGroup  (src/leptos_chart/src/barchart_group/components.rs)    *)
(* together with the parts of the theta_chart chart model they call        *)
(* (Series, Stick, scale, scale_index, get_count, CView, Cartesian,        *)
(* CartesianGroup, Color).                                                 *)
(*                                                                         *)
(* f64 values are modelled as exact rationals <<n, d>> (d > 0, lowest      *)
(* terms); d = 0 stands for the non-finite results of a division by zero   *)
(* (n > 0: +inf, n < 0: -inf, n = 0: NaN).                                 *)
(***************************************************************************)
EXTENDS Integers, Sequences, FiniteSets, TLC

VARIABLES pc, chart, out

vars == <<pc, chart, out>>

(***************************************************************************)
(* Bounds of the model.                                                    *)
(***************************************************************************)
\* longest series given to Cartesian::new
MaxLen == 2
\* most pairs added to one CartesianGroup
MaxPairs == 3

(***************************************************************************)
(* Exact arithmetic standing for f64.                                      *)
(***************************************************************************)
Abs(n) == IF n < 0 THEN -n ELSE n

Sign(n) == IF n < 0 THEN -1 ELSE IF n > 0 THEN 1 ELSE 0

RECURSIVE Gcd(_, _)
Gcd(a, b) == IF b = 0 THEN a ELSE Gcd(b, a % b)

Norm(n, d) ==
    IF d = 0 THEN <<Sign(n), 0>>
    ELSE LET g == Gcd(Abs(n), Abs(d))
             s == IF d < 0 THEN -1 ELSE 1
         IN  <<(s * n) \div g, (s * d) \div g>>

R(k) == <<k, 1>>

IsFinite(a) == a[2] # 0

\* a + b; inf + (-inf) and anything with NaN is NaN
RAdd(a, b) ==
    IF IsFinite(a) /\ IsFinite(b) THEN Norm(a[1] * b[2] + b[1] * a[2], a[2] * b[2])
    ELSE IF IsFinite(a) THEN b
    ELSE IF IsFinite(b) THEN a
    ELSE IF a = b THEN a ELSE <<0, 0>>

RNeg(a) == <<-a[1], a[2]>>

RSub(a, b) == RAdd(a, RNeg(b))

\* a * b; 0 * inf is NaN
RMul(a, b) ==
    IF IsFinite(a) /\ IsFinite(b) THEN Norm(a[1] * b[1], a[2] * b[2])
    ELSE <<Sign(a[1]) * Sign(b[1]), 0>>

\* a / b; x / 0 is +-inf, 0 / 0 is NaN, finite / inf is 0
RDiv(a, b) ==
    IF IsFinite(a) /\ IsFinite(b)
    THEN (IF b[1] = 0 THEN <<Sign(a[1]), 0>> ELSE Norm(a[1] * b[2], a[2] * b[1]))
    ELSE IF IsFinite(a) THEN (IF b[1] = 0 THEN <<0, 0>> ELSE R(0))
    ELSE IF IsFinite(b) THEN <<a[1] * (IF b[1] < 0 THEN -1 ELSE 1), 0>>
    ELSE <<0, 0>>

RAbs(a) == <<Abs(a[1]), a[2]>>

\* comparisons of finite values
RLt(a, b) == a[1] * b[2] < b[1] * a[2]

RLe(a, b) == a[1] * b[2] <= b[1] * a[2]

RMin(a, b) == IF RLe(a, b) THEN a ELSE b

RMax(a, b) == IF RLe(a, b) THEN b ELSE a

\* the largest integer of the model, standing for u64::MAX
U64Max == 2147483646 + 1

\* `f as u64`: truncates toward zero, saturates, NaN becomes 0
AsU64(a) ==
    IF ~IsFinite(a) THEN (IF a[1] > 0 THEN U64Max ELSE 0)
    ELSE IF a[1] < 0 THEN 0
    ELSE a[1] \div a[2]

\* format!("{:.0}", f) of a finite f: the nearest integer, ties to even
Fmt0(a) ==
    LET q == a[1] \div a[2]
        r == a[1] - q * a[2]
    IN  IF 2 * r < a[2] THEN q
        ELSE IF 2 * r > a[2] THEN q + 1
        ELSE IF q % 2 = 0 THEN q ELSE q + 1

(***************************************************************************)
(* theta_chart::series::Series and Stick.                                  *)
(* A Series is [tag, vals]: tag "Label" with a sequence of strings, or     *)
(* tag "Number" with a sequence of integers.  A Stick is [label, value],   *)
(* label an Option modelled as a sequence of length 0 or 1.                *)
(***************************************************************************)
SLabel(vals) == [tag |-> "Label", vals |-> vals]

SNumber(vals) == [tag |-> "Number", vals |-> vals]

IsLabel(s) == s.tag = "Label"

RECURSIVE Distinct(_)
\* the distinct entries of a sequence in first-seen order
Distinct(seq) ==
    IF seq = <<>> THEN <<>>
    ELSE LET front == Distinct(SubSeq(seq, 1, Len(seq) - 1))
             last  == seq[Len(seq)]
         IN  IF \E i \in 1..Len(front) : front[i] = last THEN front
             ELSE Append(front, last)

\* 0-based rank of l in a duplicate-free sequence, -1 when absent
RankIn(list, l) ==
    IF \E i \in 1..Len(list) : list[i] = l
    THEN (CHOOSE i \in 1..Len(list) : list[i] = l) - 1
    ELSE -1

\* Series::to_stick: one Stick per entry, in order
ToStick(s) ==
    IF IsLabel(s)
    THEN [i \in 1..Len(s.vals) |->
            [label |-> <<s.vals[i]>>, value |-> R(RankIn(Distinct(s.vals), s.vals[i]))]]
    ELSE [i \in 1..Len(s.vals) |-> [label |-> <<>>, value |-> R(s.vals[i])]]

\* number of ticks of a numeric axis
TickCount == 5

\* get_count: distinct labels of a label axis, the tick count of a numeric one
GetCount(s) == IF IsLabel(s) THEN Len(Distinct(s.vals)) ELSE TickCount

SeqMin(seq) == CHOOSE m \in {seq[i] : i \in 1..Len(seq)} : \A j \in 1..Len(seq) : m <= seq[j]

SeqMax(seq) == CHOOSE m \in {seq[i] : i \in 1..Len(seq)} : \A j \in 1..Len(seq) : m >= seq[j]

\* scale: a label axis maps rank to rank/count; a numeric axis maps v to
\* (v - min)/(max - min) clamped to [0,1], and to 0.5 on a degenerate domain
Scale(s, v) ==
    IF IsLabel(s) THEN RDiv(v, R(GetCount(s)))
    ELSE IF s.vals = <<>> \/ SeqMin(s.vals) = SeqMax(s.vals) THEN <<1, 2>>
    ELSE LET lo == R(SeqMin(s.vals))
             hi == R(SeqMax(s.vals))
         IN  RMax(R(0), RMin(R(1), RDiv(RSub(v, lo), RSub(hi, lo))))

\* scale_index: the rank of a label of the axis; -1 stands for the failure
\* on a label the axis does not hold (an absent label, a numeric axis)
ScaleIndex(s, label) ==
    IF IsLabel(s) /\ label # <<>> THEN RankIn(Distinct(s.vals), label[1]) ELSE -1

RECURSIVE MergeVals(_, _)
MergeVals(ss, tag) ==
    IF ss = <<>> THEN <<>>
    ELSE LET front == MergeVals(SubSeq(ss, 1, Len(ss) - 1), tag)
             last  == ss[Len(ss)]
         IN  IF last.tag = tag THEN front \o last.vals ELSE front

\* the axis series of a group: the series of the pairs merged, in the variant
\* of the first one
GroupSeries(ss) ==
    IF ss = <<>> THEN SNumber(<<>>)
    ELSE [tag |-> ss[1].tag, vals |-> MergeVals(ss, ss[1].tag)]

(***************************************************************************)
(* theta_chart::chart::CView: the layout set_view computes.  Only the      *)
(* vector of the plot area is read by the bars, points and path.           *)
(***************************************************************************)
\* the plot area is the canvas less one axis strip and one margin; the corner
\* of the origin (0 top left, 1 top right, 2 bottom right, 3 bottom left)
\* gives the signs of its vector
ViewOf(width, height, position_origin, height_x_axis, width_y_axis, margin) ==
    LET w == width - width_y_axis - margin
        h == height - height_x_axis - margin
    IN  [position |-> position_origin,
         vector   |-> <<(IF position_origin \in {1, 2} THEN -w ELSE w),
                        (IF position_origin \in {2, 3} THEN -h ELSE h)>>]

(***************************************************************************)
(* theta_chart::color::Color, modelled by its hue in whole degrees at full *)
(* saturation.                                                             *)
(***************************************************************************)
\* shift_hue_degrees_index: the hue turned by (shift_degrees * index) mod 360
ShiftHueDegreesIndex(color, shift_degrees, index) ==
    (color + ((shift_degrees * index) % 360)) % 360

\* to_string_hex: the 8-bit <<r, g, b>> of "#rrggbb"
ToStringHex(color) ==
    LET sector == color \div 60
        up     == (255 * (color % 60) + 30) \div 60
        down   == 255 - up
    IN  CASE sector = 0 -> <<255, up, 0>>
          [] sector = 1 -> <<down, 255, 0>>
          [] sector = 2 -> <<0, 255, up>>
          [] sector = 3 -> <<0, down, 255>>
          [] sector = 4 -> <<up, 0, 255>>
          [] OTHER      -> <<255, 0, down>>

(***************************************************************************)
(* theta_chart::coord::Cartesian and CartesianGroup.                       *)
(***************************************************************************)
NoSeries == SNumber(<<>>)

NoChart == [kind |-> "none", ax |-> NoSeries, ay |-> NoSeries, data |-> <<>>,
            view |-> ViewOf(0, 0, 0, 0, 0, 0), error |-> ""]

\* the validation of a chart constructor: the two series have one length
LengthError(ax, ay) ==
    IF Len(ax.vals) # Len(ay.vals) THEN "series x and y differ in length" ELSE ""

\* Cartesian::new(ax, ay)
NewCartesian(ax, ay, view) ==
    [kind |-> "cartesian", ax |-> ax, ay |-> ay, data |-> <<>>, view |-> view,
     error |-> LengthError(ax, ay)]

\* Cartesian::set_view and CartesianGroup::set_view
SetViewOf(c, view) ==
    [c EXCEPT !.view = view,
              !.error = IF c.kind = "cartesian" THEN LengthError(c.ax, c.ay) ELSE ""]

\* CartesianGroup::new()
NewCartesianGroup(view) ==
    [kind |-> "group", ax |-> NoSeries, ay |-> NoSeries, data |-> <<>>, view |-> view,
     error |-> ""]

\* CartesianGroup::add_data(ax, ay): the pair is appended
AddDataOf(c, ax, ay) == [c EXCEPT !.data = Append(c.data, <<ax, ay>>)]

(***************************************************************************)
(* What a render leaves behind.                                            *)
(***************************************************************************)
NoOut == [status |-> "none", panic |-> "", canvas |-> FALSE, axes |-> FALSE,
          circles |-> <<>>, paths |-> <<>>, bars |-> <<>>, layout |-> "none",
          log |-> <<>>]

\* a panic unwinds out of the component: nothing is mounted
Panicked(why, layout) == [NoOut EXCEPT !.status = "panic", !.panic = why, !.layout = layout]

(***************************************************************************)
(* LineChart (linechart/components.rs).  Indices are 1-based here.         *)
(***************************************************************************)
\* variant: a component that draws whatever the chart's error
DrawBranch_Always(c) == TRUE

\* the test that selects the drawing branch
DrawBranch(c) == c.error = ""

\* the centre of the circle of entry index
LinePoint(c, xsticks, ysticks, index) ==
    <<RMul(Scale(c.ax, xsticks[index].value), R(c.view.vector[1])),
      RMul(Scale(c.ay, ysticks[index].value), R(c.view.vector[2]))>>

\* variant: the two coordinates of a vertex exchanged
LineVertex_Swapped(point) == <<Fmt0(point[2]), Fmt0(point[1])>>

\* the vertex " {:.0},{:.0} " pushed on the path data for a point
LineVertex(point) == <<Fmt0(point[1]), Fmt0(point[2])>>

\* variant: an error branch that logs nothing
ErrorLog_Silent(c) == <<>>

\* the messages the error branch sends to log::error!
ErrorLog(c) == <<c.error>>

LineChart(c, color) ==
    LET xsticks == ToStick(c.ax)
        ysticks == ToStick(c.ay)
    IN  IF DrawBranch(c)
        THEN IF \E index \in 1..Len(xsticks) : index > Len(ysticks)
             THEN Panicked("index out of bounds: ysticks[index]", "none")
             ELSE LET point == [index \in 1..Len(xsticks) |->
                                   LinePoint(c, xsticks, ysticks, index)]
                  IN  [NoOut EXCEPT !.status = "ok", !.canvas = TRUE, !.axes = TRUE,
                                    !.circles = point,
                                    !.paths = <<[d |-> [index \in 1..Len(point) |->
                                                           LineVertex(point[index])],
                                                 stroke |-> ToStringHex(color)]>>]
        ELSE [NoOut EXCEPT !.status = "ok", !.canvas = TRUE, !.log = ErrorLog(c)]

(***************************************************************************)
(* BarChartGroup (barchart_group/components.rs).  Sequences are 1-based    *)
(* here; index and indexi keep the 0-based values of enumerate().          *)
(***************************************************************************)
\* the x series and the y series of the pairs, in the order they were added
XSeries(c) == [i \in 1..Len(c.data) |-> c.data[i][1]]

YSeries(c) == [i \in 1..Len(c.data) |-> c.data[i][2]]

\* variant: the layout decided by the last x series
XIsLabel_Last(xseries) == IsLabel(xseries[Len(xseries)])

\* x_is_label: whether the first x series is Series::Label
XIsLabel(xseries) == IsLabel(xseries[1])

\* position = 0.9 / len
Position(len) == RDiv(<<9, 10>>, R(len))

\* width_col = group.scale(position) * extent
WidthCol(group, position, extent) == RMul(Scale(group, position), R(extent))

\* variant: the cast without abs()
StrokeWidth_Signed(width_col) == AsU64(width_col)

\* the stroke-width of the style: width_col.abs() as u64
StrokeWidth(width_col) == AsU64(RAbs(width_col))

\* the colour of the series at index
SeriesColor(color, shift_degrees, index) == ShiftHueDegreesIndex(color, shift_degrees, index)

\* interval = extent / len_group
Interval(extent, len_group) == RDiv(R(extent), R(len_group))

\* variant: the bar at the start of its band instead of its middle
BandOffset_NoHalfBand(rank, len_group, extent, position, index, interval) ==
    RAdd(RMul(RDiv(R(rank), R(len_group)), R(extent)),
         RMul(RAdd(RMul(position, R(index)), <<1, 20>>), interval))

\* variant: a gutter of half a slot
BandOffset_WideGutter(rank, len_group, extent, position, index, interval) ==
    RAdd(RMul(RDiv(R(rank), R(len_group)), R(extent)),
         RMul(RAdd(RAdd(RMul(position, R(index)), RDiv(position, R(2))), <<1, 2>>),
              interval))

\* the coordinate of a bar along the grouped axis
BandOffset(rank, len_group, extent, position, index, interval) ==
    RAdd(RMul(RDiv(R(rank), R(len_group)), R(extent)),
         RMul(RAdd(RAdd(RMul(position, R(index)), RDiv(position, R(2))), <<1, 20>>),
              interval))

\* the coordinate of a bar's end along the value axis
ValueCoord(group, value, extent) == RMul(Scale(group, value), R(extent))

\* variant: every series stroked with the base colour
Style_Unshifted(color, shift_degrees, index, width_col) ==
    [stroke |-> ToStringHex(color), width |-> StrokeWidth(width_col)]

\* the style string of one series: its stroke and stroke-width
Style(color, shift_degrees, index, width_col) ==
    [stroke |-> ToStringHex(SeriesColor(color, shift_degrees, index)),
     width  |-> StrokeWidth(width_col)]

\* the <line> elements of the x series at index when the x axis holds labels
VerticalBars(c, color, shift_degrees, index) ==
    LET xseries        == XSeries(c)
        yseries        == YSeries(c)
        series_x_group == GroupSeries(xseries)
        series_y_group == GroupSeries(yseries)
        vector         == c.view.vector
        len            == Len(xseries)
        position       == Position(len)
        len_group      == GetCount(series_x_group)
        xstick         == ToStick(xseries[index + 1])
        ystick         == ToStick(yseries[index + 1])
        width_col      == WidthCol(series_x_group, position, vector[1])
        style          == Style(color, shift_degrees, index, width_col)
        interval       == Interval(vector[1], len_group)
    IN  [k \in 1..Len(xstick) |->
            LET indexi == k - 1
                rank   == ScaleIndex(series_x_group, xstick[k].label)
                x      == BandOffset(rank, len_group, vector[1], position, index, interval)
                oob    == k > Len(ystick)
                y      == IF oob THEN R(0)
                          ELSE ValueCoord(series_y_group, ystick[k].value, vector[2])
            IN  [series |-> index, entry |-> indexi, label |-> xstick[k].label, rank |-> rank,
                 x1 |-> x, y1 |-> R(0), x2 |-> x, y2 |-> y, style |-> style,
                 fault |-> IF rank < 0 THEN "unknown label: scale_index"
                           ELSE IF oob THEN "index out of bounds: ystick[indexi]"
                           ELSE ""]]

\* the <line> elements of the y series at index otherwise
HorizontalBars(c, color, shift_degrees, index) ==
    LET xseries        == XSeries(c)
        yseries        == YSeries(c)
        series_x_group == GroupSeries(xseries)
        series_y_group == GroupSeries(yseries)
        vector         == c.view.vector
        len            == Len(yseries)
        position       == Position(len)
        len_group      == GetCount(series_y_group)
        xstick         == ToStick(xseries[index + 1])
        ystick         == ToStick(yseries[index + 1])
        width_col      == WidthCol(series_y_group, position, vector[2])
        style          == Style(color, shift_degrees, index, width_col)
        interval       == Interval(vector[2], len_group)
    IN  [k \in 1..Len(ystick) |->
            LET indexi == k - 1
                oob    == k > Len(xstick)
                x      == IF oob THEN R(0)
                          ELSE ValueCoord(series_x_group, xstick[k].value, vector[1])
                rank   == ScaleIndex(series_y_group, ystick[k].label)
                y      == BandOffset(rank, len_group, vector[2], position, index, interval)
            IN  [series |-> index, entry |-> indexi, label |-> ystick[k].label, rank |-> rank,
                 x1 |-> R(0), y1 |-> y, x2 |-> x, y2 |-> y, style |-> style,
                 fault |-> IF oob THEN "index out of bounds: xstick[indexi]"
                           ELSE IF rank < 0 THEN "unknown label: scale_index"
                           ELSE ""]]

RECURSIVE Flatten(_)
\* collect::<Vec<_>>() of the per-series vectors, in order
Flatten(seqs) ==
    IF seqs = <<>> THEN <<>>
    ELSE Flatten(SubSeq(seqs, 1, Len(seqs) - 1)) \o seqs[Len(seqs)]

\* the panic message of the first element whose construction panics, "" if none
FirstFault(bars) ==
    IF \E k \in 1..Len(bars) : bars[k].fault # ""
    THEN bars[CHOOSE k \in 1..Len(bars) :
                 /\ bars[k].fault # ""
                 /\ \A j \in 1..(k - 1) : bars[j].fault = ""].fault
    ELSE ""

\* the layout the component draws with
Layout(xseries) == IF XIsLabel(xseries) THEN "vertical" ELSE "horizontal"

BarChartGroup(c, color, shift_degrees) ==
    LET xseries == XSeries(c)
    IN  IF xseries = <<>>
        THEN Panicked("index out of bounds: xseries[0]", "none")
        ELSE LET layout == Layout(xseries)
                 bars   == Flatten([i \in 1..Len(xseries) |->
                              IF layout = "vertical"
                              THEN VerticalBars(c, color, shift_degrees, i - 1)
                              ELSE HorizontalBars(c, color, shift_degrees, i - 1)])
             IN  IF FirstFault(bars) # ""
                 THEN Panicked(FirstFault(bars), layout)
                 ELSE [NoOut EXCEPT !.status = "ok", !.canvas = TRUE, !.axes = TRUE,
                                    !.bars = bars, !.layout = layout]

(***************************************************************************)
(* The inputs of the model.                                                *)
(***************************************************************************)
SeqsUpTo(S, n) == UNION {[1..k -> S] : k \in 0..n}

\* the series a Cartesian is built from, of either variant
LineSeries(tag) ==
    IF tag = "Number" THEN {SNumber(v) : v \in SeqsUpTo({0, 1, 3}, MaxLen)}
    ELSE {SLabel(v) : v \in SeqsUpTo({"A", "B"}, MaxLen)}

Tags == {"Label", "Number"}

\* the pairs add_data is called with: matching and mismatched lengths, labels
\* on either axis, on both and on none, repeated labels, empty series
GroupPairs ==
    << <<SLabel(<<"A", "B">>),      SNumber(<<1, 3>>)>>,
       <<SLabel(<<"C", "A", "C">>), SNumber(<<2, 0, 2>>)>>,
       <<SNumber(<<1, 3>>),         SLabel(<<"A", "B">>)>>,
       <<SLabel(<<"A", "B">>),      SNumber(<<1>>)>>,
       <<SLabel(<<"A">>),           SNumber(<<1, 3>>)>>,
       <<SLabel(<<>>),              SNumber(<<>>)>>,
       <<SNumber(<<1, 3>>),         SNumber(<<2, 0>>)>>,
       <<SLabel(<<"A", "B">>),      SLabel(<<"B", "A">>)>> >>

\* the layouts set_view is called with: every corner of the origin
Views == {ViewOf(845, 645, position_origin, 50, 50, 20) : position_origin \in 0..3}

\* the default of the shift_degrees prop
DefaultShiftDegrees == 70

ShiftDegrees == {DefaultShiftDegrees, 180}

\* the hue of the color prop
Hues == {30}

(***************************************************************************)
(* The program: a chart is built, laid out and rendered once.              *)
(***************************************************************************)
Init ==
    /\ pc = "start"
    /\ chart = NoChart
    /\ out = NoOut

\* Cartesian::new(ax, ay); the layout of a chart never given to set_view is
\* CView::default(), any layout here
CartesianNew ==
    /\ pc = "start"
    /\ \E tx \in Tags, ty \in Tags, v \in Views :
          \E ax \in LineSeries(tx), ay \in LineSeries(ty) :
             chart' = NewCartesian(ax, ay, v)
    /\ pc' = "cartesian"
    /\ UNCHANGED out

\* CartesianGroup::new()
CartesianGroupNew ==
    /\ pc = "start"
    /\ \E v \in Views : chart' = NewCartesianGroup(v)
    /\ pc' = "group"
    /\ UNCHANGED out

\* .set_view(width, height, position_origin, height_x_axis, width_y_axis, margin)
SetView ==
    /\ pc \in {"cartesian", "group"}
    /\ \E v \in Views : chart' = SetViewOf(chart, v)
    /\ UNCHANGED <<pc, out>>

\* .add_data(ax, ay)
AddData ==
    /\ pc = "group"
    /\ Len(chart.data) < MaxPairs
    /\ \E k \in 1..Len(GroupPairs) :
          chart' = AddDataOf(chart, GroupPairs[k][1], GroupPairs[k][2])
    /\ UNCHANGED <<pc, out>>

\* <LineChart chart=chart color=color />
RenderLineChart ==
    /\ pc = "cartesian"
    /\ \E color \in Hues : out' = LineChart(chart, color)
    /\ pc' = "rendered"
    /\ UNCHANGED chart

\* <BarChartGroup chart=chart color=color shift_degrees=shift_degrees />
RenderBarChartGroup ==
    /\ pc = "group"
    /\ \E color \in Hues, shift_degrees \in ShiftDegrees :
          out' = BarChartGroup(chart, color, shift_degrees)
    /\ pc' = "rendered"
    /\ UNCHANGED chart

Next ==
    \/ CartesianNew
    \/ CartesianGroupNew
    \/ SetView
    \/ AddData
    \/ RenderLineChart
    \/ RenderBarChartGroup

Spec == Init /\ [][Next]_vars

(***************************************************************************)
(* Vocabulary of the properties.                                           *)
(***************************************************************************)
LineRendered == pc = "rendered" /\ chart.kind = "cartesian"

GroupRendered == pc = "rendered" /\ chart.kind = "group"

\* a pair of the group whose two series differ in length
HasLengthMismatch(c) ==
    \E i \in 1..Len(c.data) : Len(c.data[i][1].vals) # Len(c.data[i][2].vals)

\* two pairs of the group with different variants on one axis
HasMixedTypes(c) ==
    \E i, j \in 1..Len(c.data) :
        c.data[i][1].tag # c.data[j][1].tag \/ c.data[i][2].tag # c.data[j][2].tag

\* a chart without a single entry
ZeroLength(c) ==
    \/ c.kind = "cartesian" /\ Len(c.ax.vals) = 0 /\ Len(c.ay.vals) = 0
    \/ c.kind = "group" /\ \A i \in 1..Len(c.data) :
                              Len(c.data[i][1].vals) = 0 /\ Len(c.data[i][2].vals) = 0

\* the series of the axis the bars are grouped along, and its extent
GroupedSeries(c) == IF out.layout = "vertical" THEN XSeries(c) ELSE YSeries(c)

GroupedExtent(c) == IF out.layout = "vertical" THEN c.view.vector[1] ELSE c.view.vector[2]

\* the labels of the grouped axis, as a set
GroupedLabels(c) ==
    UNION { IF IsLabel(GroupedSeries(c)[i])
            THEN {GroupedSeries(c)[i].vals[k] : k \in 1..Len(GroupedSeries(c)[i].vals)}
            ELSE {} : i \in 1..Len(c.data) }

\* the coordinate of a bar along the grouped axis
Along(b) == IF out.layout = "vertical" THEN b.x1 ELSE b.y1

Bars == {out.bars[k] : k \in 1..Len(out.bars)}

\* two rationals are equal: a = n / d
REq(a, n, d) == a[1] * d = n * a[2]

(***************************************************************************)
(* LineChart.                                                              *)
(***************************************************************************)
\* C1: a rendered LineChart never panics; when the chart's error is
\* non-empty (its series differ in length) it shows the empty canvas only
\* (no axes, no circle, no path) and has logged the error exactly once; when
\* the error is empty it has logged nothing and drawn the axes, one circle
\* per entry and the path.
C1_ErrorCheckedBeforeDrawing ==
    LineRendered =>
        /\ out.status = "ok"
        /\ out.canvas
        /\ chart.error # "" =>
              /\ ~out.axes /\ out.circles = <<>> /\ out.paths = <<>>
              /\ out.log = <<chart.error>>
        /\ chart.error = "" =>
              /\ out.log = <<>>
              /\ out.axes
              /\ Len(out.circles) = Len(chart.ax.vals)
              /\ Len(out.paths) = 1

\* a chart of 2 x entries and 1 y entry has been rendered and its error logged
C1_Witness ==
    /\ LineRendered
    /\ Len(chart.ax.vals) = 2 /\ Len(chart.ay.vals) = 1
    /\ out.log = <<chart.error>> /\ chart.error # ""

\* the point the specification gives entry index of the chart
ExpectedPoint(c, index) ==
    <<RMul(Scale(c.ax, ToStick(c.ax)[index].value), R(c.view.vector[1])),
      RMul(Scale(c.ay, ToStick(c.ay)[index].value), R(c.view.vector[2]))>>

\* the drawn circles are the expected points, one per entry, in series order
CirclesInSeriesOrder ==
    /\ Len(out.circles) = Len(chart.ax.vals)
    /\ \A i \in 1..Len(out.circles) : out.circles[i] = ExpectedPoint(chart, i)

\* C5 as stated: in the draw branch the circles are the expected points in
\* series order and the path visits exactly these points, one per entry.
C5_PathVisitsExactPoints ==
    (LineRendered /\ out.axes) =>
        /\ CirclesInSeriesOrder
        /\ Len(out.paths) = 1
        /\ Len(out.paths[1].d) = Len(out.circles)
        /\ \A i \in 1..Len(out.circles) :
              /\ R(out.paths[1].d[i][1]) = out.circles[i][1]
              /\ R(out.paths[1].d[i][2]) = out.circles[i][2]

\* v is a whole number nearest to the rational a
Nearest(v, a) == 2 * Abs(v * a[2] - a[1]) <= a[2]

\* C5 amended: in the draw branch the circles are the expected points in
\* series order, and the path has one vertex per entry in the same order,
\* vertex i being point i with each coordinate rounded to a whole number.
C5_PathVisitsRoundedPoints ==
    (LineRendered /\ out.axes) =>
        /\ CirclesInSeriesOrder
        /\ Len(out.paths) = 1
        /\ Len(out.paths[1].d) = Len(out.circles)
        /\ \A i \in 1..Len(out.circles) :
              /\ Nearest(out.paths[1].d[i][1], out.circles[i][1])
              /\ Nearest(out.paths[1].d[i][2], out.circles[i][2])

\* a path through two points the caller gave in descending x order, with a y
\* coordinate that is not on a whole pixel
C5_Witness ==
    /\ LineRendered /\ out.axes
    /\ chart.ax.tag = "Number" /\ chart.ax.vals = <<3, 1>>
    /\ Len(out.paths[1].d) = 2
    /\ RLt(out.circles[2][1], out.circles[1][1])
    /\ out.circles[1][2][2] # 1

\* C10: a rendered LineChart has not panicked on ysticks[index]; whenever it
\* took the draw branch the x and y sticks have one length, and a chart whose
\* series differ in length did not take it.
C10_DrawBranchHasEqualLengths ==
    LineRendered =>
        /\ out.status # "panic"
        /\ out.axes => Len(ToStick(chart.ax)) = Len(ToStick(chart.ay))
        /\ (Len(chart.ax.vals) # Len(chart.ay.vals)) => (~out.axes /\ out.circles = <<>>)

\* a chart with more x than y entries was rendered and was not drawn
C10_Witness ==
    /\ LineRendered
    /\ Len(chart.ax.vals) > Len(chart.ay.vals)
    /\ out.status = "ok" /\ ~out.axes

(***************************************************************************)
(* BarChartGroup.                                                          *)
(***************************************************************************)
GroupDrawn == GroupRendered /\ out.status = "ok"

\* number of series of the group, of distinct labels of its grouped axis
G == Len(chart.data)

L == Cardinality(GroupedLabels(chart))

\* C2 as stated: rendering a group that holds a pair of series of different
\* lengths, or pairs of different variants on one axis, does not panic, draws
\* no bar and surfaces an error message.
C2_NoPanicOnFailure ==
    (GroupRendered /\ (HasLengthMismatch(chart) \/ HasMixedTypes(chart))) =>
        /\ out.status = "ok"
        /\ out.bars = <<>>
        /\ out.log # <<>>

\* C7 as stated: rendering a chart without a single entry (a LineChart of two
\* empty series, a group of empty pairs, a group without a pair) completes
\* without a panic, emits no point, path vertex or bar and reports no error.
C7_ZeroLengthRendersNothing ==
    (pc = "rendered" /\ ZeroLength(chart)) =>
        /\ out.status = "ok"
        /\ out.circles = <<>> /\ out.bars = <<>>
        /\ \A k \in 1..Len(out.paths) : out.paths[k].d = <<>>
        /\ out.log = <<>>

\* C3: every entry of every series has its bar, and the bar of series index
\* i at a label of rank r (ranks number the distinct labels of the axis from
\* 0 in first-seen order) lies at
\*   (r/L)*extent + ((0.9/G)*i + (0.9/G)/2 + 0.05) * (extent/L)
\*   = extent * (20*r*G + 18*i + 9 + G) / (20*L*G)
\* along the grouped axis, in the vertical and in the horizontal layout.
C3_BarPositionFormula ==
    GroupDrawn =>
        /\ \A i \in 1..G : \A k \in 1..Len(GroupedSeries(chart)[i].vals) :
              \E b \in Bars : /\ b.series = i - 1 /\ b.entry = k - 1
                              /\ b.label = <<GroupedSeries(chart)[i].vals[k]>>
        /\ \A b \in Bars :
              /\ b.series \in 0..(G - 1)
              /\ b.rank \in 0..(L - 1)
              /\ REq(Along(b),
                     GroupedExtent(chart) * (20 * b.rank * G + 18 * b.series + 9 + G),
                     20 * L * G)
        /\ \A b1, b2 \in Bars : (b1.label = b2.label) <=> (b1.rank = b2.rank)

\* horizontal bars of three series over two labels: one of the last series at
\* the last label
C3_Witness ==
    /\ GroupDrawn /\ out.layout = "horizontal"
    /\ G = 3 /\ L = 2
    /\ \E b \in Bars : b.series = 2 /\ b.rank = 1

\* half of the band (0.9/G) * (extent/L) of one bar, as a length
HalfBand == Norm(9 * Abs(GroupedExtent(chart)), 20 * G * L)

\* the two ends of the slot of the label of rank r
SlotEnd(r) == Norm(r * GroupedExtent(chart), L)

\* the band of a bar lies within the slot of its label
BandWithinSlot(b) ==
    /\ RLe(RMin(SlotEnd(b.rank), SlotEnd(b.rank + 1)), RSub(Along(b), HalfBand))
    /\ RLe(RAdd(Along(b), HalfBand), RMax(SlotEnd(b.rank), SlotEnd(b.rank + 1)))

\* the bands of two bars share at most an end
BandsDisjoint(b1, b2) ==
    \/ RLe(RAdd(Along(b1), HalfBand), RSub(Along(b2), HalfBand))
    \/ RLe(RAdd(Along(b2), HalfBand), RSub(Along(b1), HalfBand))

\* C4 as stated: at one label the band centres are strictly increasing in the
\* series index, each band lies within the slot of its label and the bands of
\* different series do not overlap.
C4_BandCentersIncreasing ==
    GroupDrawn =>
        /\ \A b \in Bars : BandWithinSlot(b)
        /\ \A b1, b2 \in Bars :
              (b1.rank = b2.rank /\ b1.series < b2.series) =>
                  /\ RLt(Along(b1), Along(b2))
                  /\ BandsDisjoint(b1, b2)

\* C4 amended: at one label the band centres are strictly increasing in the
\* series index when the extent of the grouped axis is positive and strictly
\* decreasing when it is negative; each band lies within the slot of its label
\* and the bands of different series do not overlap.
C4_BandCentersMonotone ==
    GroupDrawn =>
        /\ \A b \in Bars : BandWithinSlot(b)
        /\ \A b1, b2 \in Bars :
              (b1.rank = b2.rank /\ b1.series < b2.series) =>
                  /\ GroupedExtent(chart) > 0 => RLt(Along(b1), Along(b2))
                  /\ GroupedExtent(chart) < 0 => RLt(Along(b2), Along(b1))
                  /\ BandsDisjoint(b1, b2)

\* three series with bars at one label along an axis of negative extent
C4_Witness ==
    /\ GroupDrawn /\ G = 3 /\ GroupedExtent(chart) < 0
    /\ \E b1, b2, b3 \in Bars :
          /\ b1.rank = b2.rank /\ b2.rank = b3.rank
          /\ b1.series = 0 /\ b2.series = 1 /\ b3.series = 2

\* the angle series index i is turned by
Rotation(shift_degrees, i) == (shift_degrees * i) % 360

\* C6 as stated: the bars of series i are stroked with the base colour turned
\* by (shift_degrees * i) mod 360, the bars of one series share their stroke,
\* and two series of different indices have different strokes.
C6_DistinctStrokePerSeries ==
    GroupDrawn =>
        /\ \E color \in Hues, shift_degrees \in ShiftDegrees : \A b \in Bars :
              b.style.stroke = ToStringHex((color + Rotation(shift_degrees, b.series)) % 360)
        /\ \A b1, b2 \in Bars :
              /\ b1.series = b2.series => b1.style.stroke = b2.style.stroke
              /\ b1.series # b2.series => b1.style.stroke # b2.style.stroke

\* C6 amended: the bars of series i are stroked with the base colour turned
\* by (shift_degrees * i) mod 360 and the bars of one series share their
\* stroke; two series whose angles (shift_degrees * i) mod 360 are equal have
\* the same stroke, so different indices need not give different strokes.
C6_StrokeByRotation ==
    GroupDrawn =>
        \E color \in Hues, shift_degrees \in ShiftDegrees :
            /\ \A b \in Bars :
                  b.style.stroke
                      = ToStringHex((color + Rotation(shift_degrees, b.series)) % 360)
            /\ \A b1, b2 \in Bars :
                  Rotation(shift_degrees, b1.series) = Rotation(shift_degrees, b2.series)
                      => b1.style.stroke = b2.style.stroke

\* the first and the third series of a group drawn with the same stroke, the
\* second with another
C6_Witness ==
    /\ GroupDrawn
    /\ \E b1, b2, b3 \in Bars :
          /\ b1.series = 0 /\ b2.series = 1 /\ b3.series = 2
          /\ b1.style.stroke = b3.style.stroke
          /\ b1.style.stroke # b2.style.stroke

\* every bar is a vertical line from y = 0
AllVertical == \A b \in Bars : b.x1 = b.x2 /\ b.y1 = R(0)

\* every bar is a horizontal line from x = 0
AllHorizontal == \A b \in Bars : b.y1 = b.y2 /\ b.x1 = R(0)

\* C8 as stated: the layout follows the variant of the first pair's series:
\* label-typed x series give vertical bars from y = 0, label-typed y series
\* give horizontal bars from x = 0, and the horizontal layout is used only
\* when the y series are label-typed.
C8_LayoutFromLabelAxis ==
    (GroupRendered /\ G > 0) =>
        /\ IsLabel(chart.data[1][1]) => (out.layout = "vertical" /\ AllVertical)
        /\ IsLabel(chart.data[1][2]) => (out.layout = "horizontal" /\ AllHorizontal)
        /\ out.layout = "horizontal" => IsLabel(chart.data[1][2])

\* C8 amended: the layout is picked once per render from the variant of the
\* first pair's x series and applied to every series: when it is label-typed
\* every bar is a vertical line from y = 0, and otherwise (whatever the
\* variant of the y series) every bar is a horizontal line from x = 0.
C8_LayoutFromFirstXSeries ==
    (GroupRendered /\ G > 0) =>
        /\ IsLabel(chart.data[1][1]) => (out.layout = "vertical" /\ AllVertical)
        /\ ~IsLabel(chart.data[1][1]) => (out.layout = "horizontal" /\ AllHorizontal)

\* horizontal bars drawn for a group whose later pair has label-typed x series
C8_Witness ==
    /\ GroupDrawn /\ G >= 2
    /\ ~IsLabel(chart.data[1][1]) /\ IsLabel(chart.data[2][1])
    /\ out.layout = "horizontal" /\ Len(out.bars) > 0

\* C9 as stated: the stroke-width of every bar is one band of its label slot,
\* (0.9/G) * (extent/L) taken as a length, the same for every bar.
C9_WidthIsOneBand ==
    GroupDrawn =>
        \A b \in Bars :
            /\ b.style.width >= 0
            /\ REq(R(b.style.width), 9 * Abs(GroupedExtent(chart)), 10 * G * L)
            /\ \A b2 \in Bars : b2.style.width = b.style.width

\* C9 amended: the stroke-width of every bar is the length of one band of its
\* label slot, |(0.9/G) * (extent/L)|, cut down to a whole number; it is the
\* same for every bar of every series, never negative and independent of the
\* series index.
C9_WidthIsTruncatedBand ==
    GroupDrawn =>
        \A b \in Bars :
            /\ b.style.width >= 0
            /\ b.style.width * (10 * G * L) <= 9 * Abs(GroupedExtent(chart))
            /\ 9 * Abs(GroupedExtent(chart)) < (b.style.width + 1) * (10 * G * L)
            /\ \A b2 \in Bars : b2.style.width = b.style.width

\* bars of two series along an axis of negative extent whose band is not a
\* whole number wide
C9_Witness ==
    /\ GroupDrawn /\ G = 2 /\ GroupedExtent(chart) < 0
    /\ \E b1, b2 \in Bars : b1.series = 0 /\ b2.series = 1
    /\ (9 * Abs(GroupedExtent(chart))) % (10 * G * L) # 0

====
